---- MODULE Spec2Model ----
(***************************************************************************)
(* A model of the Objective-C metadata patcher of src/main.cpp.           *)
(*                                                                         *)
(* Bytes are scaled down to ByteBits bits; a uint32_t is 4 bytes and a     *)
(* uint64_t is 8 bytes as in the program, so that every integer keeps its  *)
(* wrap-around (Mod32, Mod64) and every pointer spans PtrSize bytes.       *)
(* Byte offsets are 0-based as in the program; buf[o + 1] is the byte at   *)
(* offset o of the sequence buf.                                           *)
(***************************************************************************)
EXTENDS Integers, Sequences, FiniteSets, TLC

VARIABLES
    argv,       \* the command line: replace_args, --exclude, --quiet, --dry-run
    file,       \* the input file as LLVM parses it (kind, members, objects)
    disk,       \* the bytes of the file on disk
    args,       \* CommandLineArgs as returned by parseCommandLine
    pc,         \* position of main
    OriginalMB, \* SourceImage
    WritableMB, \* WorkingImage
    member,     \* index of the slice being processed (1 for a thin file)
    sec,        \* index of the section being visited in patchMachOSlice
    cur,        \* Current - Contents.begin(), or the slot offset i
    status,     \* Running, Aborted, Persisted or Discarded
    exitCode,   \* return value of main, -1 while running
    outLines,   \* number of messages written to outs()
    errs,       \* messages written to errs(), in order
    writes,     \* history: every memcpy into WritableMB
    reads,      \* history: what each category-list slot resolved
    invoked,    \* history: every call of patchMachOSlice
    dispatched, \* history: every call of a section patcher
    diskWrites, \* history: number of times the file was overwritten
    va,         \* address-translation harness: segments, VA and the result
    rp          \* replace-loop harness: the locals of lines 163-182

mainVars == <<argv, file, disk, args, pc, OriginalMB, WritableMB, member, sec,
              cur, status, exitCode, outLines, errs, writes, reads, invoked,
              dispatched, diskWrites>>

vars == <<mainVars, va, rp>>

-----------------------------------------------------------------------------
(* Scaled integer widths *)

ByteBits == 2
ByteMod == 2 ^ ByteBits
Mod32 == ByteMod ^ 4
Mod64 == ByteMod ^ 8

\* std::nullopt / std::string::npos
nullopt == -1
npos == -1

\* Two charset symbols stand for the 62 of generateRandomString; 3 is a
\* non-zero byte outside the charset
ChA == 1
ChB == 2
ChOther == ChB + 1
Charset == {ChA, ChB}

-----------------------------------------------------------------------------
(* Bounds *)

MaxSegs == 2
MaxStrLen == 5
MaxPatLen == 2

-----------------------------------------------------------------------------
(* Helpers on byte sequences *)

StringsOver(chars, lo, hi) == UNION {[1..n -> chars] : n \in lo..hi}

\* std::string::find(pat, pos): first index >= pos where pat occurs, or npos
find(s, pat, pos) ==
    LET hits == {i \in pos..(Len(s) - Len(pat)) :
                    \A k \in 1..Len(pat) : s[i + k] = pat[k]}
    IN IF hits = {} THEN npos
       ELSE CHOOSE i \in hits : \A j \in hits : i <= j

\* std::string::replace(pos, n, rep)
replace(s, pos, n, rep) ==
    SubSeq(s, 1, pos) \o rep \o
    (IF pos + n >= Len(s) THEN <<>> ELSE SubSeq(s, pos + n + 1, Len(s)))

\* memcpy(buf + at, src, n)
memcpy(buf, at, src, n) ==
    [k \in 1..Len(buf) |-> IF k > at /\ k <= at + n THEN src[k - at] ELSE buf[k]]

-----------------------------------------------------------------------------
(* virtualAddressToFileOffset, lines 104-120 *)

SegEnd64(Seg) == (Seg.vmaddr + Seg.vmsize) % Mod64
SegEnd32(Seg) == (Seg.vmaddr + Seg.vmsize) % Mod32

SegHit_Inclusive(Seg, VA) ==
    /\ Seg.cmd \in {"LC_SEGMENT_64", "LC_SEGMENT"}
    /\ VA >= Seg.vmaddr
    /\ VA <= (IF Seg.cmd = "LC_SEGMENT_64" THEN SegEnd64(Seg) ELSE SegEnd32(Seg))

\* the test of lines 109 and 114 on one load command
SegHit(Seg, VA) ==
    \/ /\ Seg.cmd = "LC_SEGMENT_64"
       /\ VA >= Seg.vmaddr /\ VA < SegEnd64(Seg)
    \/ /\ Seg.cmd = "LC_SEGMENT"
       /\ VA >= Seg.vmaddr /\ VA < SegEnd32(Seg)

RECURSIVE ScanLoadCommands(_, _, _)
ScanLoadCommands(lcs, VA, k) ==
    IF k > Len(lcs) THEN nullopt
    ELSE IF SegHit(lcs[k], VA)
         THEN ((VA - lcs[k].vmaddr) + lcs[k].fileoff) % Mod64
         ELSE ScanLoadCommands(lcs, VA, k + 1)

virtualAddressToFileOffset(lcs, VA) == ScanLoadCommands(lcs, VA, 1)

-----------------------------------------------------------------------------
(* The replace loop, lines 163-172 and 240-249 *)

ReplaceInit(name) == [newName |-> name, pos |-> 0, replaced |-> FALSE]

ReplaceFound(st, pattern) == find(st.newName, pattern, st.pos) # npos

ReplaceStep_NoSkip(st, pattern, replacement) ==
    LET p == find(st.newName, pattern, st.pos)
    IN [newName  |-> replace(st.newName, p, Len(pattern), replacement),
        pos      |-> p + 1,
        replaced |-> TRUE]

\* one iteration of the while loop body
ReplaceStep(st, pattern, replacement) ==
    LET p == find(st.newName, pattern, st.pos)
    IN [newName  |-> replace(st.newName, p, Len(pattern), replacement),
        pos      |-> p + Len(replacement),
        replaced |-> TRUE]

RECURSIVE ReplaceLoop(_, _, _)
ReplaceLoop(st, pattern, replacement) ==
    IF ReplaceFound(st, pattern)
    THEN ReplaceLoop(ReplaceStep(st, pattern, replacement), pattern, replacement)
    ELSE st

-----------------------------------------------------------------------------
(* Specification SpecVA: virtualAddressToFileOffset on bounded inputs *)

VaIdle == [phase |-> "idle"]
RpIdle == [phase |-> "idle"]

NoArgs == [excludedClasses |-> {}, quietMode |-> FALSE, dryRun |-> FALSE,
           pattern |-> <<>>, replacement |-> <<>>]

\* the run is not part of the harness specifications
MainIdle ==
    /\ argv = [replace_args |-> <<>>, excludedClasses |-> {},
               quietMode |-> FALSE, dryRun |-> FALSE]
    /\ file = [kind |-> "other", bytes |-> <<>>, members |-> <<>>]
    /\ disk = <<>>
    /\ args = NoArgs
    /\ pc = "idle"
    /\ OriginalMB = <<>> /\ WritableMB = <<>>
    /\ member = 0 /\ sec = 0 /\ cur = 0
    /\ status = "Running" /\ exitCode = -1
    /\ outLines = 0 /\ errs = <<>>
    /\ writes = <<>> /\ reads = <<>> /\ invoked = <<>> /\ dispatched = <<>>
    /\ diskWrites = 0

\* sampled field values of one segment record of width m; LLVM rejects a
\* segment whose fileoff lies past the end of the file, so fileoff is small
SegRecords(cmd, m) ==
    [cmd : {cmd}, vmaddr : {1, m - 2}, vmsize : {0, 1, 3, m - 1}, fileoff : {0, 3}]

LoadCommandSet ==
    SegRecords("LC_SEGMENT_64", Mod64) \cup SegRecords("LC_SEGMENT", Mod32)
      \cup {[cmd |-> "LC_SYMTAB", vmaddr |-> 0, vmsize |-> 0, fileoff |-> 0]}

VASet == {0, 1, 2, 3, 4, Mod32 - 2, Mod32 - 1, Mod32, Mod64 - 2, Mod64 - 1}

InitVA ==
    /\ MainIdle
    /\ va \in [phase : {"call"},
               lcs : UNION {[1..n -> LoadCommandSet] : n \in 0..MaxSegs},
               VA : VASet]
    /\ rp = RpIdle

Translate ==
    /\ va.phase = "call"
    /\ va' = [phase |-> "returned", lcs |-> va.lcs, VA |-> va.VA,
              result |-> virtualAddressToFileOffset(va.lcs, va.VA)]
    /\ UNCHANGED <<mainVars, rp>>

NextVA == Translate

SpecVA == InitVA /\ [][NextVA]_vars

-----------------------------------------------------------------------------
(* Specification SpecReplace: the Replace branch of one entry, lines        *)
(* 163-182 (and 240-259), on a validated configuration                      *)

InitReplace ==
    /\ MainIdle
    /\ va = VaIdle
    /\ \E name \in StringsOver(Charset, 1, MaxStrLen),
          n \in 1..MaxPatLen :
         \E pattern \in [1..n -> Charset], replacement \in [1..n -> Charset] :
            rp = [phase |-> "loop", originalName |-> name,
                  pattern |-> pattern, replacement |-> replacement,
                  st |-> ReplaceInit(name),
                  \* the entry's bytes in the working buffer, terminator included
                  buf |-> name \o <<0>>, wrote |-> FALSE, iters |-> 0]

ReplaceIterate ==
    /\ rp.phase = "loop"
    /\ ReplaceFound(rp.st, rp.pattern)
    /\ rp' = [rp EXCEPT !.st = ReplaceStep(rp.st, rp.pattern, rp.replacement),
                        !.iters = @ + 1]
    /\ UNCHANGED <<mainVars, va>>

ReplaceFinish ==
    /\ rp.phase = "loop"
    /\ ~ReplaceFound(rp.st, rp.pattern)
    /\ rp' = [rp EXCEPT
                !.phase = "done",
                !.wrote = rp.st.replaced,
                !.buf = IF rp.st.replaced
                        THEN memcpy(rp.buf, 0, rp.st.newName \o <<0>>,
                                    Len(rp.originalName))
                        ELSE rp.buf]
    /\ UNCHANGED <<mainVars, va>>

NextReplace == ReplaceIterate \/ ReplaceFinish

SpecReplace == InitReplace /\ [][NextReplace]_vars

-----------------------------------------------------------------------------
(* Reading the images *)

\* the pointer width of a slice, line 215
PtrSize(is64) == IF is64 THEN 8 ELSE 4

\* *(const uintN_t*)(buf + off) on the little-endian host, lines 218-219, 226-227
ReadPointer(buf, off, n) ==
    LET acc[k \in 0..n] ==
            IF k = 0 THEN 0 ELSE acc[k - 1] + buf[off + k] * ByteMod ^ (k - 1)
    IN acc[n]

\* strlen at buf + off
CStrLen(buf, off) ==
    CHOOSE n \in 0..(Len(buf) - off) :
        /\ (off + n = Len(buf) \/ buf[off + n + 1] = 0)
        /\ \A m \in 0..(n - 1) : buf[off + m + 1] # 0

\* StringRef(const char*) at buf + off, lines 147 and 234
StringRefAt(buf, off) == SubSeq(buf, off + 1, off + CStrLen(buf, off))

\* generateRandomString(length), lines 90-101: a string of that length over
\* the charset; every such string up to length 2, and beyond that the four
\* strings that alternate two symbols
generateRandomString(length) ==
    {[k \in 1..length |-> IF k % 2 = 1 THEN a ELSE b] : a \in Charset, b \in Charset}

-----------------------------------------------------------------------------
(* Input files.  An object is laid out as                                   *)
(*   header byte | __objc_classname | __objc_catlist (slots and one odd     *)
(*   trailing byte) | one category record per slot | a C string "AB"        *)
(* mapped by two segments (text, then data after a gap in the VA space).    *)

EncodeLE(v, n) == [k \in 1..n |-> (v \div ByteMod ^ (k - 1)) % ByteMod]

RECURSIVE Flatten(_)
Flatten(ss) == IF ss = <<>> THEN <<>> ELSE Head(ss) \o Flatten(Tail(ss))

TailString == <<ChA, ChB, 0>>

NoFault == [kind |-> "none", at |-> 0]

MkObject(is64, cls, kinds, fault) ==
    LET P       == PtrSize(is64)
        n       == Len(kinds)
        clsOff  == 1
        catOff  == clsOff + Len(cls)
        catSize == n * P + 1
        recOff(k) == catOff + catSize + (k - 1) * P
        strOff  == catOff + catSize + n * P
        total   == strOff + Len(TailString)
        TextVMBase == 5
        dataVM  == TextVMBase + catOff + 2
        VAof(o) == IF o < catOff THEN TextVMBase + o ELSE dataVM + (o - catOff)
        slotVA(k) == IF kinds[k] = "slotUnres" THEN 0 ELSE VAof(recOff(k))
        nameVA(k) ==
            CASE kinds[k] = "nameUnres" -> TextVMBase + catOff
              [] kinds[k] = "cls0"      -> VAof(clsOff)
              [] kinds[k] = "cls1"      -> VAof(clsOff + 1)
              [] kinds[k] = "self"      -> VAof(recOff(k))
              [] kinds[k] = "empty"     -> VAof(strOff + 2)
              [] OTHER                  -> VAof(strOff)
        cmd     == IF is64 THEN "LC_SEGMENT_64" ELSE "LC_SEGMENT"
        secAt(j, name, off, size) ==
            [name |-> name, offset |-> off, size |-> size,
             nameOK |-> ~(fault.kind = "name" /\ fault.at = j),
             contentsOK |-> ~(fault.kind = "contents" /\ fault.at = j)]
    IN [is64 |-> is64,
        bytes |-> <<ChOther>> \o cls
                    \o Flatten([k \in 1..n |-> EncodeLE(slotVA(k), P)]) \o <<0>>
                    \o Flatten([k \in 1..n |-> EncodeLE(nameVA(k), P)])
                    \o TailString,
        lcs |-> << [cmd |-> "LC_SYMTAB", vmaddr |-> 0, vmsize |-> 0, fileoff |-> 0],
                   [cmd |-> cmd, vmaddr |-> TextVMBase, vmsize |-> catOff,
                    fileoff |-> 0],
                   [cmd |-> cmd, vmaddr |-> dataVM, vmsize |-> total - catOff,
                    fileoff |-> catOff] >>,
        secs |-> << secAt(1, "__text", 0, 1),
                    secAt(2, "__objc_classname", clsOff, Len(cls)),
                    secAt(3, "__objc_catlist", catOff, catSize),
                    secAt(4, "__objc_const", catOff + catSize, n * P) >>]

\* class-name sections: "AB"; "A", padding, "B"; an unterminated "BA"
ClsSet == { <<ChA, ChB, 0>>, <<ChA, 0, 0, ChB, 0>>, <<ChB, ChA>> }

SlotKinds == {"slotUnres", "nameUnres", "cls0", "cls1", "tail", "self", "empty"}
PairKinds == {"cls0", "tail"}
SlotSeqs ==
    {<<>>} \cup {<<k>> : k \in SlotKinds} \cup {<<k, l>> : k \in PairKinds, l \in PairKinds}

Faults == {[kind |-> "name", at |-> 1], [kind |-> "name", at |-> 2],
           [kind |-> "contents", at |-> 2], [kind |-> "contents", at |-> 3]}

ContentObjects ==
    {MkObject(is64, cls, kinds, NoFault) :
        is64 \in BOOLEAN, cls \in ClsSet, kinds \in SlotSeqs}

FaultObjects == {MkObject(TRUE, <<ChA, ChB, 0>>, <<"tail">>, f) : f \in Faults}

ThinFile(obj) ==
    [kind |-> "thin", bytes |-> obj.bytes,
     members |-> << [offset |-> 0, parses |-> TRUE, obj |-> obj] >>]

\* members of a universal container
MaxMembers == 2
FatHeader == <<ChOther, ChOther, 0>>

MemberSet ==
    { [parses |-> TRUE,  obj |-> MkObject(TRUE,  <<ChA, 0>>, <<"cls0">>, NoFault)],
      [parses |-> TRUE,  obj |-> MkObject(FALSE, <<ChB, 0>>, <<"tail">>, NoFault)],
      [parses |-> FALSE, obj |-> MkObject(TRUE,  <<ChA, 0>>, <<"cls0">>, NoFault)],
      [parses |-> TRUE,  obj |-> MkObject(TRUE,  <<ChA, 0>>, <<"cls0">>,
                                          [kind |-> "name", at |-> 2])] }

RECURSIVE MemberOffset(_, _)
MemberOffset(ms, k) ==
    IF k = 1 THEN Len(FatHeader)
    ELSE MemberOffset(ms, k - 1) + Len(ms[k - 1].obj.bytes)

UniversalFile(ms) ==
    [kind |-> "universal",
     bytes |-> FatHeader \o Flatten([k \in 1..Len(ms) |-> ms[k].obj.bytes]),
     members |-> [k \in 1..Len(ms) |->
                    [offset |-> MemberOffset(ms, k), parses |-> ms[k].parses,
                     obj |-> ms[k].obj]]]

OtherFile == [kind |-> "other", bytes |-> <<ChOther, ChA, 0>>, members |-> <<>>]

Files ==
    {ThinFile(o) : o \in ContentObjects \cup FaultObjects}
      \cup {UniversalFile(ms) : ms \in UNION {[1..n -> MemberSet] : n \in 1..MaxMembers}}
      \cup {OtherFile}

\* command lines
ExcludeSets == { {}, {<<ChA>>}, {<<ChA, ChB>>} }
ReplaceArgSet ==
    { <<>>,
      << <<>>, <<ChB>> >>,
      << <<ChA, ChB>>, <<ChB>> >>,
      << <<ChA>>, <<ChB>> >>,
      << <<ChA, ChB>>, <<ChB, ChA>> >>,
      << <<ChB>>, <<ChB>> >> }

-----------------------------------------------------------------------------
(* Specification Spec: one run of main, lines 305-376 *)

Init ==
    /\ argv \in [replace_args : ReplaceArgSet, excludedClasses : ExcludeSets,
                 quietMode : BOOLEAN, dryRun : BOOLEAN]
    /\ file \in Files
    /\ disk = file.bytes
    /\ args = NoArgs
    /\ pc = "main"
    /\ OriginalMB = <<>> /\ WritableMB = <<>>
    /\ member = 0 /\ sec = 0 /\ cur = 0
    /\ status = "Running" /\ exitCode = -1
    /\ outLines = 0 /\ errs = <<>>
    /\ writes = <<>> /\ reads = <<>> /\ invoked = <<>> /\ dispatched = <<>>
    /\ diskWrites = 0
    /\ va = VaIdle /\ rp = RpIdle

\* the number of messages a step writes to outs()
Say(n) == IF args.quietMode THEN 0 ELSE n

\* return 1 from main after a message on errs()
Abort(msg) ==
    /\ pc' = "exit"
    /\ status' = "Aborted"
    /\ exitCode' = 1
    /\ errs' = Append(errs, msg)

ValidationFails_EmptyOnly(replace_args) ==
    /\ replace_args # <<>>
    /\ replace_args[1] = <<>>

\* the validation callback, lines 61-75: TRUE when it throws
ValidationFails(replace_args) ==
    /\ replace_args # <<>>
    /\ \/ replace_args[1] = <<>>
       \/ Len(replace_args[1]) # Len(replace_args[2])

\* parseCommandLine and main's test of its result, lines 36-87 and 308-312
ParseCommandLine ==
    /\ pc = "main"
    /\ \E otherParseError \in BOOLEAN :
         IF otherParseError \/ ValidationFails(argv.replace_args)
         THEN /\ Abort("cli")
              /\ UNCHANGED args
         ELSE /\ args' = [excludedClasses |-> argv.excludedClasses,
                          quietMode |-> argv.quietMode,
                          dryRun |-> argv.dryRun,
                          pattern |-> IF argv.replace_args = <<>> THEN <<>>
                                      ELSE argv.replace_args[1],
                          replacement |-> IF argv.replace_args = <<>> THEN <<>>
                                          ELSE argv.replace_args[2]]
              /\ pc' = "load"
              /\ UNCHANGED <<status, exitCode, errs>>
    /\ UNCHANGED <<argv, file, disk, OriginalMB, WritableMB, member, sec, cur,
                   outLines, writes, reads, invoked, dispatched, diskWrites, va, rp>>

\* createBinary, MemoryBuffer::getFile and the copy, lines 316-331
LoadBinary ==
    /\ pc = "load"
    /\ \E outcome \in {"ok", "createBinary", "getFile"} :
         IF outcome = "ok"
         THEN /\ OriginalMB' = disk
              /\ WritableMB' = disk
              /\ pc' = "dispatch"
              /\ UNCHANGED <<status, exitCode, errs>>
         ELSE /\ Abort(outcome)
              /\ UNCHANGED <<OriginalMB, WritableMB>>
    /\ UNCHANGED <<argv, file, disk, args, member, sec, cur, outLines, writes,
                   reads, invoked, dispatched, diskWrites, va, rp>>

SliceOffset_First == file.members[1].offset

\* the slice being processed: ObjForArch.getOffset(), or 0 for a thin file
SliceOffset == file.members[member].offset
MachOObj == file.members[member].obj
Section == MachOObj.secs[sec]

\* entering patchMachOSlice for member m, lines 283-287
EnterSlice(m) ==
    /\ member' = m
    /\ sec' = 1
    /\ cur' = 0
    /\ pc' = "sections"
    /\ invoked' = Append(invoked, [member |-> m, SliceOffset |-> file.members[m].offset])
    /\ outLines' = outLines + Say(1)

\* the loop over ObjForArch from member m on, lines 334-345: failing members
\* are reported and skipped
RECURSIVE SkippedFrom(_)
SkippedFrom(m) ==
    IF m <= Len(file.members) /\ ~file.members[m].parses
    THEN SkippedFrom(m + 1) ELSE m

ArchErrors(from, to) == [k \in 1..(to - from) |-> "getAsObjectFile"]

\* continue main's loop at member m (or leave it)
ContinueAt(m, report) ==
    LET next == SkippedFrom(m)
    IN /\ errs' = errs \o report \o ArchErrors(m, next)
       /\ IF next <= Len(file.members)
          THEN EnterSlice(next)
          ELSE /\ pc' = "finish"
               /\ member' = next
               /\ UNCHANGED <<sec, cur, invoked, outLines>>
       /\ UNCHANGED <<status, exitCode>>

\* the dyn_cast dispatch, lines 333-354
Dispatch ==
    /\ pc = "dispatch"
    /\ CASE file.kind = "universal" -> ContinueAt(1, <<>>)
         [] file.kind = "thin" -> EnterSlice(1) /\ UNCHANGED <<status, exitCode, errs>>
         [] OTHER -> /\ Abort("not Mach-O")
                     /\ UNCHANGED <<member, sec, cur, invoked, outLines>>
    /\ UNCHANGED <<argv, file, disk, args, OriginalMB, WritableMB, writes, reads,
                   dispatched, diskWrites, va, rp>>

\* patchMachOSlice returns to main, lines 341-350
SliceReturns(failed) ==
    IF file.kind = "universal"
    THEN ContinueAt(member + 1, IF failed THEN <<"patch slice">> ELSE <<>>)
    ELSE IF failed
         THEN /\ Abort("patch file")
              /\ UNCHANGED <<member, sec, cur, invoked, outLines>>
         ELSE /\ pc' = "finish"
              /\ UNCHANGED <<member, sec, cur, invoked, outLines, status,
                             exitCode, errs>>

NameLookupFails_Recovered == FALSE

\* Section.getName() returns an error, lines 288-291
NameLookupFails == ~Section.nameOK

\* one iteration of the section loop of patchMachOSlice, lines 287-300
VisitSection ==
    /\ pc = "sections"
    /\ IF sec > Len(MachOObj.secs)
       THEN SliceReturns(FALSE) /\ UNCHANGED dispatched
       ELSE IF NameLookupFails
       THEN SliceReturns(TRUE) /\ UNCHANGED dispatched
       ELSE IF Section.name \in {"__objc_classname", "__objc_catlist"}
       THEN /\ dispatched' = Append(dispatched, [member |-> member, sec |-> sec])
            \* lines 139-143 and 208-212: unreadable contents end the patcher
            /\ IF Section.contentsOK
               THEN /\ pc' = IF Section.name = "__objc_classname"
                             THEN "classname" ELSE "catlist"
                    /\ cur' = 0
                    /\ UNCHANGED sec
               ELSE /\ sec' = sec + 1
                    /\ UNCHANGED <<pc, cur>>
            /\ UNCHANGED <<member, invoked, outLines, status, exitCode, errs>>
       ELSE /\ sec' = sec + 1
            /\ UNCHANGED <<pc, cur, member, invoked, outLines, status, exitCode,
                           errs, dispatched>>
    /\ UNCHANGED <<argv, file, disk, args, OriginalMB, WritableMB, writes, reads,
                   diskWrites, va, rp>>

-----------------------------------------------------------------------------
(* The two patchers *)

\* useReplaceMode, lines 161 and 238
useReplaceMode == args.pattern # <<>>

\* what the mode branch does with a name, lines 163-193 and 240-271: whether
\* it writes, the bytes it hands to memcpy and the length it passes
PatchOutcomes(name) ==
    IF useReplaceMode
    THEN LET r == ReplaceLoop(ReplaceInit(name), args.pattern, args.replacement)
         IN {[write |-> r.replaced, data |-> r.newName \o <<0>>,
              len |-> Len(name), say |-> IF r.replaced THEN 2 ELSE 0]}
    ELSE {[write |-> TRUE, data |-> RandomString \o <<0>>,
           len |-> Len(RandomString), say |-> 2] :
            RandomString \in generateRandomString(Len(name))}

\* line 160
RealFileOffset(sliceOffset, SectionFileOffset, current) ==
    (sliceOffset + SectionFileOffset + current) % Mod64

\* line 233
RealNameOffset(sliceOffset, name_offset) == (sliceOffset + name_offset) % Mod64

\* the buffers the category patcher dereferences, lines 225 and 234
CategoryRecordBuffer == OriginalMB
CategoryNameBuffer_Working == WritableMB
CategoryNameBuffer == OriginalMB

\* the exclusion test of line 153
IsExcluded(name) == name \in args.excludedClasses

\* the length handed to memcpy, lines 181, 190, 258 and 267
CopyLength_WithTerminator(out) == out.len + 1
CopyLength(out) == out.len

\* the memcpy of a patch and its record in the history
ApplyPatch(patcher, at, name, out) ==
    IF out.write
    THEN /\ WritableMB' = memcpy(WritableMB, at, out.data, CopyLength(out))
         /\ writes' = Append(writes,
                [patcher |-> patcher, member |-> member, sec |-> sec, cur |-> cur,
                 at |-> at, len |-> CopyLength(out),
                 data |-> SubSeq(out.data, 1, CopyLength(out)), orig |-> name])
    ELSE UNCHANGED <<WritableMB, writes>>

NextEntry_OneByte(current, name) == current + 1

\* Current += Name.size() + 1, lines 156 and 195
NextEntry(current, name) == current + Len(name) + 1

\* one iteration of the loop of patchClassNameSection, lines 146-196; the
\* section contents are the bytes of the file as loaded
ClassNameEntry ==
    /\ pc = "classname"
    /\ LET begin == SliceOffset + Section.offset
           Name  == StringRefAt(OriginalMB, begin + cur)
       IN IF cur >= Section.size
          THEN /\ pc' = "sections" /\ sec' = sec + 1 /\ cur' = 0
               /\ UNCHANGED <<WritableMB, writes, outLines>>
          ELSE IF Name = <<>>
          THEN /\ cur' = cur + 1
               /\ UNCHANGED <<pc, sec, WritableMB, writes, outLines>>
          ELSE IF IsExcluded(Name)
          THEN /\ cur' = NextEntry(cur, Name)
               /\ outLines' = outLines + Say(1)
               /\ UNCHANGED <<pc, sec, WritableMB, writes>>
          ELSE \E out \in PatchOutcomes(Name) :
                 /\ ApplyPatch("class",
                               RealFileOffset(SliceOffset, Section.offset, cur),
                               Name, out)
                 /\ outLines' = outLines + Say(out.say)
                 /\ cur' = NextEntry(cur, Name)
                 /\ UNCHANGED <<pc, sec>>
    /\ UNCHANGED <<argv, file, disk, args, OriginalMB, member, status, exitCode,
                   errs, reads, invoked, dispatched, diskWrites, va, rp>>

\* what a category-list slot resolves to, lines 218-236 (nullopt where the
\* chain stops)
ResolveSlot(i) ==
    LET P == PtrSize(MachOObj.is64)
        category_va == ReadPointer(OriginalMB, SliceOffset + Section.offset + i, P)
        category_offset == virtualAddressToFileOffset(MachOObj.lcs, category_va)
        category_name_va ==
            IF category_offset = nullopt THEN nullopt
            ELSE ReadPointer(CategoryRecordBuffer, SliceOffset + category_offset, P)
        name_offset ==
            IF category_name_va = nullopt THEN nullopt
            ELSE virtualAddressToFileOffset(MachOObj.lcs, category_name_va)
    IN [member |-> member, sec |-> sec, i |-> i,
        category_va |-> category_va,
        category_offset |-> category_offset,
        category_name_va |-> category_name_va,
        name_offset |-> name_offset,
        CategoryName |->
            IF name_offset = nullopt THEN <<>>
            ELSE StringRefAt(CategoryNameBuffer,
                             RealNameOffset(SliceOffset, name_offset))]

\* one iteration of the loop of patchCategoryListSection, lines 217-272
CategorySlot ==
    /\ pc = "catlist"
    /\ LET P == PtrSize(MachOObj.is64)
           r == ResolveSlot(cur)
       IN IF ~(cur + P <= Section.size)
          THEN /\ pc' = "sections" /\ sec' = sec + 1 /\ cur' = 0
               /\ UNCHANGED <<WritableMB, writes, reads, outLines>>
          ELSE /\ reads' = Append(reads, r)
               /\ cur' = cur + P
               /\ UNCHANGED <<pc, sec>>
               /\ IF r.CategoryName = <<>>
                  THEN UNCHANGED <<WritableMB, writes, outLines>>
                  ELSE \E out \in PatchOutcomes(r.CategoryName) :
                         /\ ApplyPatch("category",
                                       RealNameOffset(SliceOffset, r.name_offset),
                                       r.CategoryName, out)
                         /\ outLines' = outLines + Say(out.say)
    /\ UNCHANGED <<argv, file, disk, args, OriginalMB, member, status, exitCode,
                   errs, invoked, dispatched, diskWrites, va, rp>>

Finish_IgnoreDryRun ==
    /\ pc = "finish"
    /\ disk' = WritableMB
    /\ diskWrites' = diskWrites + 1
    /\ pc' = "exit" /\ status' = "Persisted" /\ exitCode' = 0
    /\ outLines' = outLines + Say(1)
    /\ UNCHANGED <<argv, file, args, OriginalMB, WritableMB, member, sec, cur,
                   errs, writes, reads, invoked, dispatched, va, rp>>

\* the end of main, lines 356-375
Finish ==
    /\ pc = "finish"
    /\ IF args.dryRun
       THEN /\ pc' = "exit" /\ status' = "Discarded" /\ exitCode' = 0
            /\ outLines' = outLines + Say(1)
            /\ UNCHANGED <<disk, diskWrites, errs>>
       ELSE \E opened \in BOOLEAN :
              IF opened
              THEN /\ disk' = WritableMB
                   /\ diskWrites' = diskWrites + 1
                   /\ pc' = "exit" /\ status' = "Persisted" /\ exitCode' = 0
                   /\ outLines' = outLines + Say(1)
                   /\ UNCHANGED errs
              ELSE /\ Abort("open for writing")
                   /\ UNCHANGED <<disk, diskWrites, outLines>>
    /\ UNCHANGED <<argv, file, args, OriginalMB, WritableMB, member, sec, cur,
                   writes, reads, invoked, dispatched, va, rp>>

Next ==
    \/ ParseCommandLine
    \/ LoadBinary
    \/ Dispatch
    \/ VisitSection
    \/ ClassNameEntry
    \/ CategorySlot
    \/ Finish

Spec == Init /\ [][Next]_vars

-----------------------------------------------------------------------------
(* Properties *)

\* the width of the integers of a segment record
RecordWidth(Seg) == IF Seg.cmd = "LC_SEGMENT_64" THEN Mod64 ELSE Mod32

\* VA lies in the half-open range [vmaddr, vmaddr + vmsize) of a segment
\* record whose end does not wrap in the record's width
Contains(Seg, VA) ==
    /\ Seg.cmd \in {"LC_SEGMENT_64", "LC_SEGMENT"}
    /\ Seg.vmaddr + Seg.vmsize < RecordWidth(Seg)
    /\ Seg.vmaddr <= VA
    /\ VA < Seg.vmaddr + Seg.vmsize

ContainingSegments(lcs, VA) == {k \in 1..Len(lcs) : Contains(lcs[k], VA)}

\* C6 (address translation): virtualAddressToFileOffset returns
\* fileoff + (VA - vmaddr) of the first load command, in declaration order and
\* of either segment record shape, whose half-open range contains VA, and
\* nullopt when none does; a segment whose end wraps contains nothing.
C6_AddressTranslation ==
    va.phase = "returned" =>
        LET hits == ContainingSegments(va.lcs, va.VA)
        IN IF hits = {}
           THEN va.result = nullopt
           ELSE LET first == CHOOSE k \in hits : \A j \in hits : k <= j
                IN va.result = va.lcs[first].fileoff + (va.VA - va.lcs[first].vmaddr)

\* a translated address that two segments of different record shapes contain,
\* at different file offsets: the first in declaration order decided
C6_Witness ==
    /\ va.phase = "returned"
    /\ Len(va.lcs) = 2
    /\ ContainingSegments(va.lcs, va.VA) = {1, 2}
    /\ va.lcs[1].cmd # va.lcs[2].cmd
    /\ va.lcs[1].fileoff # va.lcs[2].fileoff
    /\ va.result = va.lcs[1].fileoff + (va.VA - va.lcs[1].vmaddr)

\* the result of replacing, left to right, every non-overlapping occurrence
\* of pattern in the original string s from position i on
RECURSIVE ReplaceAllFrom(_, _, _, _)
ReplaceAllFrom(s, pattern, replacement, i) ==
    IF i >= Len(s) THEN <<>>
    ELSE IF /\ i + Len(pattern) <= Len(s)
            /\ SubSeq(s, i + 1, i + Len(pattern)) = pattern
         THEN replacement \o ReplaceAllFrom(s, pattern, replacement, i + Len(pattern))
         ELSE <<s[i + 1]>> \o ReplaceAllFrom(s, pattern, replacement, i + 1)

Occurs(s, pattern) ==
    \E i \in 0..(Len(s) - Len(pattern)) : SubSeq(s, i + 1, i + Len(pattern)) = pattern

\* C3 (replace correctness): with a non-empty pattern and a replacement of the
\* same length, every match the loop finds is an occurrence in the original
\* string, the loop ends within len(S) iterations, the string produced is the
\* original with its left-to-right non-overlapping occurrences replaced, and
\* the entry's bytes are written only if an occurrence was found.
C3_ReplaceCorrectness ==
    /\ rp.phase = "loop" =>
         /\ rp.iters <= Len(rp.originalName)
         /\ rp.st.pos <= Len(rp.originalName)
         /\ ReplaceFound(rp.st, rp.pattern) =>
              LET p == find(rp.st.newName, rp.pattern, rp.st.pos)
              IN SubSeq(rp.originalName, p + 1, p + Len(rp.pattern)) = rp.pattern
    /\ rp.phase = "done" =>
         LET expected == ReplaceAllFrom(rp.originalName, rp.pattern, rp.replacement, 0)
         IN /\ rp.st.newName = expected
            /\ rp.wrote = Occurs(rp.originalName, rp.pattern)
            /\ rp.buf = (IF rp.wrote THEN expected ELSE rp.originalName) \o <<0>>

\* two occurrences replaced by a replacement that re-introduces the pattern
C3_Witness ==
    /\ rp.phase = "done"
    /\ rp.wrote
    /\ rp.iters = 2
    /\ rp.pattern # rp.replacement
    /\ Occurs(rp.st.newName, rp.pattern)
    /\ rp.buf = rp.st.newName \o <<0>>

-----------------------------------------------------------------------------
(* Properties of a run *)

Loaded == OriginalMB # <<>>
SlicesDone == Loaded /\ pc \in {"finish", "exit"} /\ file.kind # "other"

Range(at, len) == at..(at + len - 1)

\* the byte at offset o of an image
ByteAt(buf, o) == buf[o + 1]

\* offsets, within section j of member m, at which an entry of a string table
\* starts: a non-NUL byte that is the first of the section or follows a NUL
EntryStarts(m, j) ==
    LET begin == file.members[m].offset + file.members[m].obj.secs[j].offset
    IN {p \in 0..(file.members[m].obj.secs[j].size - 1) :
          /\ ByteAt(OriginalMB, begin + p) # 0
          /\ (p = 0 \/ ByteAt(OriginalMB, begin + p - 1) = 0)}

ClassNameSections(m) ==
    {j \in 1..Len(file.members[m].obj.secs) :
        /\ file.members[m].obj.secs[j].nameOK
        /\ file.members[m].obj.secs[j].name = "__objc_classname"}

\* C1 (exclusion fidelity): after all slices have been processed, the bytes of
\* WritableMB at every non-empty class-name entry whose text is in the
\* exclusion set equal those of OriginalMB.
C1_ExclusionFidelity ==
    SlicesDone =>
        \A m \in 1..Len(file.members) :
            file.members[m].parses =>
                \A j \in ClassNameSections(m) : \A p \in EntryStarts(m, j) :
                    LET at == file.members[m].offset
                                + file.members[m].obj.secs[j].offset + p
                        name == StringRefAt(OriginalMB, at)
                    IN name \in args.excludedClasses =>
                         \A o \in Range(at, Len(name)) :
                             ByteAt(WritableMB, o) = ByteAt(OriginalMB, o)


Obj(m) == file.members[m].obj
Base(m) == file.members[m].offset

IsPrefix(a, b) == Len(a) <= Len(b) /\ \A i \in 1..Len(a) : a[i] = b[i]

\* errs() without the report of a failed open for writing
Reports ==
    IF errs # <<>> /\ errs[Len(errs)] = "open for writing"
    THEN SubSeq(errs, 1, Len(errs) - 1) ELSE errs

AbortedBy(msgs) == status = "Aborted" /\ exitCode = 1 /\ errs # <<>> /\ errs[Len(errs)] \in msgs

\* C4 (configuration rejection): a replace directive with an empty pattern or
\* with a replacement of another length ends the run Aborted with a non-zero
\* exit before the binary is loaded, a slice processed or a byte written; so
\* whenever a slice is being processed the directive, if given, is the
\* configured pattern and replacement, of equal length and non-empty.
C4_ConfigurationRejection ==
    /\ ( /\ argv.replace_args # <<>>
         /\ (argv.replace_args[1] = <<>>
              \/ Len(argv.replace_args[1]) # Len(argv.replace_args[2])) ) =>
          /\ pc \in {"main", "exit"}
          /\ pc = "exit" => status = "Aborted" /\ exitCode # 0
          /\ ~Loaded /\ WritableMB = <<>>
          /\ invoked = <<>> /\ dispatched = <<>> /\ writes = <<>>
          /\ disk = file.bytes /\ diskWrites = 0
    /\ pc \in {"sections", "classname", "catlist"} =>
          /\ useReplaceMode = (argv.replace_args # <<>>)
          /\ useReplaceMode =>
               /\ args.pattern = argv.replace_args[1]
               /\ args.replacement = argv.replace_args[2]
               /\ args.pattern # <<>>
               /\ Len(args.replacement) = Len(args.pattern)

\* the run of pattern "AB" with replacement "B" on a thin binary has ended
C4_Witness ==
    /\ pc = "exit"
    /\ argv.replace_args = << <<ChA, ChB>>, <<ChB>> >>
    /\ file.kind = "thin"
    /\ status = "Aborted" /\ exitCode = 1
    /\ disk = file.bytes

\* the members of a universal file that parse, from member k on, as calls of
\* patchMachOSlice, and the reports main writes for the others
RECURSIVE ExpectedInvocations(_)
ExpectedInvocations(k) ==
    IF k > Len(file.members) THEN <<>>
    ELSE (IF file.members[k].parses
          THEN << [member |-> k, SliceOffset |-> Base(k)] >> ELSE <<>>)
         \o ExpectedInvocations(k + 1)

NameFaultIndex(obj) ==
    LET bad == {j \in 1..Len(obj.secs) : ~obj.secs[j].nameOK}
    IN IF bad = {} THEN Len(obj.secs) + 1
       ELSE CHOOSE j \in bad : \A i \in bad : j <= i

RECURSIVE ExpectedReports(_)
ExpectedReports(k) ==
    IF k > Len(file.members) THEN <<>>
    ELSE (IF ~file.members[k].parses THEN <<"getAsObjectFile">>
          ELSE IF NameFaultIndex(Obj(k)) <= Len(Obj(k).secs) THEN <<"patch slice">>
          ELSE <<>>)
         \o ExpectedReports(k + 1)

\* C5 as claimed (persistence guard): the file is overwritten at most once,
\* only after every slice has been processed and only when dryRun is false,
\* and every run with dryRun = true ends in Discarded with exit code 0 and
\* leaves the bytes on disk as they were.
C5_PersistenceGuard ==
    /\ diskWrites <= 1
    /\ diskWrites = 0 => disk = file.bytes
    /\ diskWrites = 1 =>
          /\ ~argv.dryRun
          /\ pc = "exit" /\ status = "Persisted"
          /\ invoked = ExpectedInvocations(1)
          /\ disk = WritableMB
    /\ (argv.dryRun /\ pc = "exit") =>
          /\ status = "Discarded" /\ exitCode = 0
          /\ disk = file.bytes

\* C5 as amended: as C5, but a run with dryRun = true ends in Discarded with
\* exit code 0 or, after a fatal configuration, load or thin-slice error, in
\* Aborted with exit code 1; in both cases the file is never overwritten.
C5_PersistenceGuardAmended ==
    /\ diskWrites <= 1
    /\ diskWrites = 0 => disk = file.bytes
    /\ diskWrites = 1 =>
          /\ ~argv.dryRun
          /\ pc = "exit" /\ status = "Persisted"
          /\ invoked = ExpectedInvocations(1)
          /\ disk = WritableMB
    /\ (argv.dryRun /\ pc = "exit") =>
          /\ disk = file.bytes /\ diskWrites = 0
          /\ \/ status = "Discarded" /\ exitCode = 0 /\ SlicesDone
                  /\ invoked = ExpectedInvocations(1)
             \/ AbortedBy({"cli", "createBinary", "getFile", "not Mach-O", "patch file"})

\* a dry run that patched the working image and was discarded
C5_Witness ==
    /\ pc = "exit" /\ argv.dryRun
    /\ status = "Discarded" /\ exitCode = 0
    /\ WritableMB # OriginalMB
    /\ disk = file.bytes /\ disk = OriginalMB

\* C8 (universal coverage and isolation): for a universal file patchMachOSlice
\* is called once for every member that parses, in order, with the member's
\* file offset as slice base; every address is translated with the member's
\* own load commands; members that fail to parse or whose processing fails
\* are reported, the later ones are still processed, and the run ends
\* Persisted or Discarded with exit code 0 unless the file cannot be opened
\* for writing.
C8_UniversalCoverage ==
    (file.kind = "universal" /\ Loaded /\ pc # "dispatch") =>
        /\ IsPrefix(invoked, ExpectedInvocations(1))
        /\ IsPrefix(Reports, ExpectedReports(1))
        /\ pc \in {"finish", "exit"} =>
              /\ invoked = ExpectedInvocations(1)
              /\ Reports = ExpectedReports(1)
        /\ \A i \in 1..Len(writes) :
              writes[i].patcher = "class" =>
                 writes[i].at = Base(writes[i].member)
                                  + Obj(writes[i].member).secs[writes[i].sec].offset
                                  + writes[i].cur
        /\ \A i \in 1..Len(reads) :
              LET r == reads[i]
                  P == PtrSize(Obj(r.member).is64)
              IN /\ r.category_va =
                       ReadPointer(OriginalMB,
                                   Base(r.member) + Obj(r.member).secs[r.sec].offset + r.i, P)
                 /\ r.category_offset =
                       virtualAddressToFileOffset(Obj(r.member).lcs, r.category_va)
                 /\ r.category_offset # nullopt =>
                      /\ r.category_name_va =
                            ReadPointer(OriginalMB, Base(r.member) + r.category_offset, P)
                      /\ r.name_offset =
                            virtualAddressToFileOffset(Obj(r.member).lcs, r.category_name_va)
        /\ pc = "exit" =>
              \/ status \in {"Persisted", "Discarded"} /\ exitCode = 0
              \/ AbortedBy({"open for writing"}) /\ ~args.dryRun

\* a universal file of two members, the first of which failed, whose second
\* member was patched and persisted
C8_Witness ==
    /\ file.kind = "universal" /\ Len(file.members) = 2
    /\ pc = "exit" /\ status = "Persisted" /\ exitCode = 0
    /\ errs # <<>>
    /\ \E i \in 1..Len(writes) : writes[i].member = 2
    /\ \E i \in 1..Len(reads) : reads[i].member = 2


\* patchMachOSlice has returned for member m
Returned(m) ==
    /\ \E i \in 1..Len(invoked) : invoked[i].member = m
    /\ (m < member \/ pc \in {"finish", "exit"})

Patchable(obj, j) ==
    /\ obj.secs[j].nameOK
    /\ obj.secs[j].name \in {"__objc_classname", "__objc_catlist"}

HasFault(obj, j) == ~obj.secs[j].nameOK \/ ~obj.secs[j].contentsOK

DispatchedOf(m) ==
    LET picked == {i \in 1..Len(dispatched) : dispatched[i].member = m}
    IN {dispatched[i].sec : i \in picked}

ThinSliceRan == file.kind = "thin" /\ pc = "exit" /\ invoked # <<>>

SlotOf(w) ==
    {i \in 1..Len(reads) :
        reads[i].member = w.member /\ reads[i].sec = w.sec /\ reads[i].i = w.cur}

\* C2 (length invariance): every write of either patcher starts at the first
\* byte of the original NUL-terminated string (a class-name entry start, or
\* the resolved name offset of the slot) and covers exactly len(original)
\* bytes; no other byte of WritableMB changes, no terminator is overwritten
\* and the patched string keeps its length.
C2_LengthInvariance ==
    Loaded =>
        /\ Len(WritableMB) = Len(OriginalMB)
        /\ \A i \in 1..Len(writes) :
              LET w == writes[i]
              IN /\ w.orig = StringRefAt(OriginalMB, w.at)
                 /\ w.len = Len(w.orig)
                 /\ Len(w.data) = w.len
                 /\ w.at + w.len < Len(OriginalMB)
                 /\ ByteAt(OriginalMB, w.at + w.len) = 0
                 /\ CStrLen(WritableMB, w.at) = Len(w.orig)
                 /\ IF w.patcher = "class"
                    THEN /\ w.cur \in EntryStarts(w.member, w.sec)
                         /\ w.at = Base(w.member) + Obj(w.member).secs[w.sec].offset + w.cur
                    ELSE \E k \in SlotOf(w) :
                            /\ reads[k].name_offset # nullopt
                            /\ w.at = Base(w.member) + reads[k].name_offset
        /\ \A o \in 0..(Len(OriginalMB) - 1) :
              /\ ByteAt(OriginalMB, o) = 0 => ByteAt(WritableMB, o) = 0
              /\ ByteAt(WritableMB, o) # ByteAt(OriginalMB, o) =>
                    \E i \in 1..Len(writes) : o \in Range(writes[i].at, writes[i].len)

\* both patchers have written in Replace mode, and a class name of two
\* bytes was overwritten by a string that differs from it
C2_Witness ==
    /\ \E i \in 1..Len(writes), j \in 1..Len(writes) :
          /\ writes[i].patcher = "class" /\ writes[j].patcher = "category"
          /\ writes[i].len = 2
          /\ writes[i].data # writes[i].orig
    /\ useReplaceMode

\* what slot i of section j of member m resolves to, from OriginalMB alone
SourceSlot(m, j, i) ==
    LET P == PtrSize(Obj(m).is64)
        cva == ReadPointer(OriginalMB, Base(m) + Obj(m).secs[j].offset + i, P)
        coff == virtualAddressToFileOffset(Obj(m).lcs, cva)
        nva == IF coff = nullopt THEN nullopt
               ELSE ReadPointer(OriginalMB, Base(m) + coff, P)
        noff == IF nva = nullopt THEN nullopt
                ELSE virtualAddressToFileOffset(Obj(m).lcs, nva)
    IN [member |-> m, sec |-> j, i |-> i, category_va |-> cva,
        category_offset |-> coff, category_name_va |-> nva, name_offset |-> noff,
        CategoryName |-> IF noff = nullopt THEN <<>>
                         ELSE StringRefAt(OriginalMB, Base(m) + noff)]

CategoryWritesOf(r) ==
    {i \in 1..Len(writes) :
        /\ writes[i].patcher = "category"
        /\ writes[i].member = r.member /\ writes[i].sec = r.sec /\ writes[i].cur = r.i}

PointerField(r) == Range(Base(r.member) + r.category_offset, PtrSize(Obj(r.member).is64))

\* what every slot does whatever the layout: it resolves from OriginalMB and
\* writes at most the range of its name
SlotReadsSourceWritesName(r) ==
    /\ r = SourceSlot(r.member, r.sec, r.i)
    /\ Cardinality(CategoryWritesOf(r)) <= 1
    /\ \A i \in CategoryWritesOf(r) :
          /\ writes[i].at = Base(r.member) + r.name_offset
          /\ writes[i].len = Len(r.CategoryName)
          /\ writes[i].orig = r.CategoryName
    /\ (r.CategoryName = <<>> \/ r.name_offset = nullopt) => CategoryWritesOf(r) = {}
    /\ (~useReplaceMode /\ r.CategoryName # <<>>) => CategoryWritesOf(r) # {}

\* C7 as claimed (indirection correctness): every slot resolves its record
\* pointer and its name from OriginalMB, whatever was patched before; it
\* writes only the range of its name; a slot that does not resolve, or whose
\* name is empty, writes nothing; and the pointer field of its category
\* record is the same in WritableMB as in OriginalMB.
C7_IndirectionCorrectness ==
    Loaded =>
        /\ \A i \in 1..Len(writes) : writes[i].patcher = "category" => SlotOf(writes[i]) # {}
        /\ \A k \in 1..Len(reads) :
              /\ SlotReadsSourceWritesName(reads[k])
              /\ reads[k].category_offset # nullopt =>
                    \A o \in PointerField(reads[k]) :
                        ByteAt(WritableMB, o) = ByteAt(OriginalMB, o)

\* C7 as amended: as C7, but the pointer field of the category record stays
\* the same only outside the byte ranges of patched names: where a name
\* resolves into the record itself, its bytes are overwritten.
C7_IndirectionCorrectnessAmended ==
    Loaded =>
        /\ \A i \in 1..Len(writes) : writes[i].patcher = "category" => SlotOf(writes[i]) # {}
        /\ \A k \in 1..Len(reads) :
              /\ SlotReadsSourceWritesName(reads[k])
              /\ reads[k].category_offset # nullopt =>
                    \A o \in PointerField(reads[k]) :
                        \/ ByteAt(WritableMB, o) = ByteAt(OriginalMB, o)
                        \/ \E i \in 1..Len(writes) :
                              /\ o \in Range(writes[i].at, writes[i].len)
                              /\ writes[i].orig = StringRefAt(OriginalMB, writes[i].at)

\* a slot whose name the class-name patcher had already changed in
\* WritableMB: it still read the original name and wrote over the same range
C7_Witness ==
    \E i \in 1..Len(writes), j \in 1..Len(writes) :
        /\ i < j
        /\ writes[i].patcher = "class" /\ writes[j].patcher = "category"
        /\ writes[i].at = writes[j].at
        /\ writes[i].data # writes[i].orig
        /\ writes[j].orig = StringRefAt(OriginalMB, writes[j].at)
        /\ \E k \in SlotOf(writes[j]) : reads[k].CategoryName = writes[j].orig

\* C10 as claimed (disjoint writes): the ranges of two different writes into
\* WritableMB never overlap.
C10_DisjointWrites ==
    \A i \in 1..Len(writes), j \in 1..Len(writes) :
        i < j => Range(writes[i].at, writes[i].len) \cap Range(writes[j].at, writes[j].len) = {}

\* C10 as amended: the ranges written for two entries of the same class-name
\* section never overlap, the later one starting beyond the terminator of
\* the earlier; a range written for a category-list slot may overlap them.
C10_DisjointWritesAmended ==
    \A i \in 1..Len(writes), j \in 1..Len(writes) :
        ( /\ i < j
          /\ writes[i].patcher = "class" /\ writes[j].patcher = "class"
          /\ writes[i].member = writes[j].member /\ writes[i].sec = writes[j].sec ) =>
            writes[i].at + writes[i].len < writes[j].at

\* two entries of one class-name section were written, and then a slot
\* wrote over one of them
C10_Witness ==
    \E i \in 1..Len(writes), j \in 1..Len(writes), k \in 1..Len(writes) :
        /\ i < j /\ j < k
        /\ writes[i].patcher = "class" /\ writes[j].patcher = "class"
        /\ writes[i].member = writes[j].member /\ writes[i].sec = writes[j].sec
        /\ writes[k].patcher = "category"
        /\ writes[k].at = writes[i].at

====
